---- MODULE Spec2Model ----
(***************************************************************************)
(* The mmap transport of xpra: the ring of payloads kept in a shared       *)
(* region by mmap_write / mmap_read (xpra/net/mmap_pipe.py), the token     *)
(* written and read back byte by byte (write_mmap_token, read_mmap_token)  *)
(* and the server side of the handshake (MMAP_Connection).                 *)
(*                                                                         *)
(* The region is an array of bytes.  Bytes [0,4) are the data_start word   *)
(* and bytes [4,8) the data_end word: c_uint32.from_buffer gives the       *)
(* native layout, taken little-endian here (x86, arm).  Python's assert    *)
(* statements are taken as enabled (the interpreter's default).            *)
(***************************************************************************)
EXTENDS Integers, Sequences, FiniteSets, TLC

\* size of the region in bytes (N); the program uses 64MiB..4GiB
mmap_size == 16
\* the producer stops while this many descriptors await the consumer
MaxOutstanding == 2
\* the consumer remembers this many descriptors it has already read
MaxReleased == 2
\* the widest token, in bytes, that is written and read back
MaxTokenBytes == 2
\* the longest payload, in MiB, written into a region of 64 MiB
MaxPayloadMiB == 48

VARIABLES
    mmap_area,      \* the bytes of the region, 0..mmap_size-1
    outstanding,    \* descriptors returned by mmap_write and not read yet, oldest first
    view,           \* the zero-copy array the consumer got from mmap_read and still uses
    released,       \* descriptors the consumer has read already, oldest first
    furthest,       \* end of the last pair of the newest descriptor read (0: none read)
    lastOp,         \* the last mmap_write / mmap_read call and what it returned
    token_call,     \* a write_mmap_token / read_mmap_token call: arguments and outcome
    conn,           \* the MMAP_Connection of the server and its last parse_client_caps
    init_call,      \* an init_client_mmap / init_server_mmap call: arguments, files, outcome
    prod,           \* the producer: where it is inside mmap_write, what it has written so far
    cons,           \* the consumer: where it is inside mmap_read
    scenario        \* the two cursors of a region of the program's own sizes

vars == <<mmap_area, outstanding, view, released, furthest, lastOp, token_call, conn,
          init_call, prod, cons, scenario>>

Max(a, b) == IF a >= b THEN a ELSE b

\* the payloads the producer sends, one of each length up to one more than
\* the data area holds; neighbouring bytes of a payload differ
Payload(l) == [i \in 1..l |-> 1 + (i % 2)]
Payloads == { Payload(l) : l \in 0..(mmap_size - 8 + 1) }

----------------------------------------------------------------------------
(* bytes and words of the region *)

\* c_uint32.from_buffer(mmap_area, pos).value
int_from_buffer(area, pos) ==
    area[pos] + 256 * area[pos + 1] + 65536 * area[pos + 2] + 16777216 * area[pos + 3]

\* c_uint32.from_buffer(mmap_area, pos).value = v
set_uint32(area, pos, v) ==
    [i \in DOMAIN area |->
        IF i = pos THEN v % 256
        ELSE IF i = pos + 1 THEN (v \div 256) % 256
        ELSE IF i = pos + 2 THEN (v \div 65536) % 256
        ELSE IF i = pos + 3 THEN (v \div 16777216) % 256
        ELSE area[i]]

\* mmap_area.seek(pos); mmap_area.write(data)
seek_write(area, pos, data) ==
    [i \in DOMAIN area |->
        IF pos <= i /\ i < pos + Len(data) THEN data[i - pos + 1] ELSE area[i]]

\* the bytes of the region in [offset, offset+length)
region_bytes(area, offset, length) == [i \in 1..length |-> area[offset + i - 1]]

\* len(mmap_area)
area_len(area) == Cardinality(DOMAIN area)

Min(a, b) == IF a <= b THEN a ELSE b

\* mmap_area.seek(offset) raises ValueError("seek out of range")
seek_out_of_range(area, offset) == offset < 0 \/ offset > area_len(area)

\* mmap_area.seek(offset); mmap_area.read(length): the bytes from offset, as
\* many as there are before the end of the region (all of them if length < 0)
seek_read(area, offset, length) ==
    region_bytes(area, offset,
                 IF length < 0 THEN area_len(area) - offset
                 ELSE Min(length, area_len(area) - offset))

\* (c_char*length).from_buffer(mmap_area, offset) raises ValueError: the
\* offset is negative or the region is too small for the array
from_buffer_fails(area, offset, length) ==
    offset < 0 \/ offset + length > area_len(area)

----------------------------------------------------------------------------
(* mmap_write *)

\* "if end<start": we have wrapped around but the client hasn't yet
wrapped_state(start, end) == end < start

\* chunk: what can be written at end in one piece
first_chunk(start, end, size) ==
    IF wrapped_state(start, end) THEN start - end ELSE size - end

\* variant: the space before data_start is not counted
available_without_front(start, end, size) == first_chunk(start, end, size)

\* available: the free space computed from the cursors
available_space(start, end, size) ==
    IF wrapped_state(start, end) THEN start - end
    ELSE first_chunk(start, end, size) + (start - 8)

\* "if l>(mmap_size-8)": mmap area is too small
area_too_small(l, size) == l > (size - 8)

\* variant: the area counts as full only below zero
area_full_when_negative(free) == free < 0

\* "if mmap_free_size<=0": mmap area is full
area_full(free) == area_full_when_negative(free) \/ free = 0

\* "if l<chunk": data fits in the first chunk
fits_first_chunk(l, chunk) == l < chunk

\* variant: start again without asking for three times the length
start_again_without_margin(available, size, l, start) ==
    /\ 2 * available >= size
    /\ l < (start - 8)

\* still plenty of free space, don't wrap around: just start again
\* (available>=(mmap_size/2) is a float comparison: doubled here)
start_again(available, size, l, start) ==
    /\ 2 * available >= size
    /\ available >= l * 3
    /\ l < (start - 8)

\* the cursors as mmap_write takes them: max(8, value)
write_start(area) == Max(8, int_from_buffer(area, 0))
write_end(area) == Max(8, int_from_buffer(area, 4))

\* "return None, mmap_free_size"
write_refused(area, free) ==
    [ok |-> FALSE, chunks |-> <<>>, free |-> free, area |-> area, raised |-> ""]

\* variant: data_end is left where it was
data_end_unmoved(end, l) == end

\* "mmap_data_end.value = end+l"
data_end_after(end, l) == end + l

\* variant: nothing is left for the chunk written at 8
second_chunk_none(l, chunk) == 0

\* "l2 = l-chunk": what is left for the chunk written at 8
second_chunk(l, chunk) == l - chunk

\* the three placements of mmap_write, once the size checks have passed, from
\* the cursors alone: the chunks returned and the value stored in data_end
write_path(start, end, size, l) ==
    LET chunk     == first_chunk(start, end, size)
        available == available_space(start, end, size)
    IN  IF fits_first_chunk(l, chunk)
        THEN [path |-> "contiguous", chunks |-> << <<end, l>> >>,
              data_end |-> data_end_after(end, l)]
        ELSE IF start_again(available, size, l, start)
        THEN [path |-> "restart", chunks |-> << <<8, l>> >>, data_end |-> 8 + l]
        ELSE [path |-> "split",
              chunks |-> << <<end, chunk>>, <<8, second_chunk(l, chunk)>> >>,
              data_end |-> 8 + second_chunk(l, chunk)]

\* mmap_area.seek(offset); mmap_area.write(...) for each chunk, in order
RECURSIVE copy_chunks(_, _, _)
copy_chunks(area, chunks, data) ==
    IF chunks = <<>> THEN area
    ELSE copy_chunks(seek_write(area, Head(chunks)[1], SubSeq(data, 1, Head(chunks)[2])),
                     Tail(chunks),
                     SubSeq(data, Head(chunks)[2] + 1, Len(data)))

\* mmap_area.seek(pos) raises ValueError("seek out of range") past the end of
\* the region, mmap_area.write(data) raises ValueError("data out of range")
\* when fewer than len(data) bytes are left at pos; nothing is copied then
write_out_of_range(area, pos, l) ==
    pos < 0 \/ pos > area_len(area) \/ area_len(area) - pos < l

\* how many of the chunks are copied before seek or write raises
RECURSIVE chunks_copied(_, _)
chunks_copied(area, chunks) ==
    IF chunks = <<>> THEN 0
    ELSE IF write_out_of_range(area, Head(chunks)[1], Head(chunks)[2]) THEN 0
    ELSE 1 + chunks_copied(area, Tail(chunks))

\* mmap_write left by the ValueError of seek or write: the chunks before the
\* failing one are copied, data_end is not stored, nothing is returned
write_raised(area, free, chunks, data) ==
    [ok |-> FALSE, chunks |-> <<>>, free |-> free,
     area |-> copy_chunks(area, SubSeq(chunks, 1, chunks_copied(area, chunks)), data),
     raised |-> "ValueError"]

\* the bytes copied and data_end stored, once the size checks have passed
write_placed(area, size, data) ==
    LET start == write_start(area)
        end   == write_end(area)
        l     == Len(data)
        p     == write_path(start, end, size, l)
    IN  IF chunks_copied(area, p.chunks) < Len(p.chunks)
        THEN write_raised(area, available_space(start, end, size) - l, p.chunks, data)
        ELSE [ok |-> TRUE, chunks |-> p.chunks,
              free |-> available_space(start, end, size) - l,
              area |-> set_uint32(copy_chunks(area, p.chunks, data), 4, p.data_end),
              raised |-> ""]

\* what mmap_write decides from the two cursors it has loaded: refused, or
\* the chunks it will copy to and the value it will store in data_end
write_plan(start, end, size, l) ==
    LET free == available_space(start, end, size) - l
        p    == write_path(start, end, size, l)
    IN  IF area_too_small(l, size) \/ area_full(free)
        THEN [ok |-> FALSE, path |-> "refused", chunks |-> <<>>, free |-> free,
              data_end |-> end]
        ELSE [ok |-> TRUE, path |-> p.path, chunks |-> p.chunks, free |-> free,
              data_end |-> p.data_end]

\* variant: mmap_write with the bytes copied before the size checks are made
mmap_write_copy_first(area, size, data) ==
    LET free == available_space(write_start(area), write_end(area), size) - Len(data)
    IN  IF area_too_small(Len(data), size) \/ area_full(free)
        THEN write_refused(seek_write(area, write_end(area), data), free)
        ELSE write_placed(area, size, data)

\* the value mmap_write returns (chunks, mmap_free_size), and the region it leaves
mmap_write(area, size, data) ==
    LET free == available_space(write_start(area), write_end(area), size) - Len(data)
    IN  IF area_too_small(Len(data), size) THEN write_refused(area, free)
        ELSE IF area_full(free) THEN write_refused(area, free)
        ELSE write_placed(area, size, data)

----------------------------------------------------------------------------
(* mmap_read *)

\* variant: the store goes to the word at offset 4
store_data_end(area, v) == set_uint32(area, 4, v)

\* data_start = int_from_buffer(mmap_area, 0); data_start.value = v
store_data_start(area, v) == set_uint32(area, 0, v)

\* variant: the chunks joined last first
RECURSIVE join_chunks_reversed(_, _)
join_chunks_reversed(area, descr) ==
    IF descr = <<>> THEN <<>>
    ELSE join_chunks_reversed(area, Tail(descr))
         \o region_bytes(area, Head(descr)[1], Head(descr)[2])

\* b"".join(data): the chunks' bytes in the order of the descriptor, each
\* chunk read after data_start was stored for the chunk before it
RECURSIVE join_chunks(_, _)
join_chunks(area, descr) ==
    IF descr = <<>> THEN <<>>
    ELSE seek_read(area, Head(descr)[1], Head(descr)[2])
         \o join_chunks(store_data_start(area, Head(descr)[1] + Head(descr)[2]),
                        Tail(descr))

\* data_start.value = offset+length, once per chunk, in order
RECURSIVE release_chunks(_, _)
release_chunks(area, descr) ==
    IF descr = <<>> THEN area
    ELSE release_chunks(store_data_start(area, Head(descr)[1] + Head(descr)[2]),
                        Tail(descr))

\* the chunks read before a seek raises: all of them if none does
chunks_before_error(area, descr) ==
    LET bad == { k \in 1..Len(descr) : seek_out_of_range(area, descr[k][1]) }
    IN  IF bad = {} THEN descr
        ELSE SubSeq(descr, 1, (CHOOSE k \in bad : \A j \in bad : k <= j) - 1)

\* the value mmap_read returns, and the region it leaves; a descriptor of one
\* chunk gives an array that shares the region's memory (zerocopy), and nothing
\* in mmap_read compares an offset or a length with the data area
mmap_read(area, descr) ==
    IF Len(descr) = 1
    THEN IF descr[1][2] < 0
         THEN [data |-> <<>>, zerocopy |-> FALSE, area |-> area,
               error |-> "ValueError"]
         ELSE LET stored == store_data_start(area, descr[1][1] + descr[1][2])
              IN  IF from_buffer_fails(area, descr[1][1], descr[1][2])
                  THEN [data |-> <<>>, zerocopy |-> FALSE, area |-> stored,
                        error |-> "ValueError"]
                  ELSE [data |-> region_bytes(stored, descr[1][1], descr[1][2]),
                        zerocopy |-> TRUE, area |-> stored, error |-> ""]
    ELSE LET done == chunks_before_error(area, descr)
         IN  IF done # descr
             THEN [data |-> <<>>, zerocopy |-> FALSE,
                   area |-> release_chunks(area, done), error |-> "ValueError"]
             ELSE [data |-> join_chunks(area, descr), zerocopy |-> FALSE,
                   area |-> release_chunks(area, descr), error |-> ""]

----------------------------------------------------------------------------
(* write_mmap_token, read_mmap_token *)

\* variant: one shift too many
shifted_once_more(token, count) == token \div (256 ^ (count + 1))

\* v after the loop of write_mmap_token: token >> 8, count times (token >= 0)
shifted(token, count) == token \div (256 ^ count)

\* the value poked in turn i of the loop: v % 256 after i shifts
poke_value(token, i) == shifted(token, i) % 256

\* how many turns of a loop over index, index+1, ... get a byte of the region:
\* c_ubyte.from_buffer raises ValueError for an offset outside the buffer
turns_in_buffer(area, index, count) ==
    IF index < 0 THEN 0 ELSE Min(count, Max(0, area_len(area) - index))

\* variant: the turns of the loop leave the region as it was
poked_region_untouched(area, token, index, n) == area

\* the region after n turns of "poke.value = v % 256; v = v>>8" from index on
poked_region(area, token, index, n) ==
    [j \in DOMAIN area |-> IF index <= j /\ j < index + n
                           THEN poke_value(token, j - index) ELSE area[j]]

\* write_mmap_token(mmap_area, token, index, count): the region it leaves and
\* the exception it raises ("" when it returns)
write_mmap_token(area, token, index, count) ==
    IF ~(count > 0) THEN [area |-> area, error |-> "AssertionError"]
    ELSE LET n == turns_in_buffer(area, index, count)
             poked == poked_region(area, token, index, n)
         IN  IF n < count THEN [area |-> poked, error |-> "ValueError"]
             ELSE IF shifted(token, count) # 0
             THEN [area |-> poked, error |-> "token value is too big"]
             ELSE [area |-> poked, error |-> ""]

\* variant: the bytes peeked from the lowest offset up
peek_index_forward(index, i, count) == index + i

\* the offset peeked in turn i of the loop of read_mmap_token
peek_index(index, i, count) == index + count - 1 - i

\* v = v<<8; v += peek.value, from turn i on
RECURSIVE read_loop(_, _, _, _, _)
read_loop(area, index, count, i, v) ==
    IF i = count THEN v
    ELSE read_loop(area, index, count, i + 1,
                   v * 256 + area[peek_index(index, i, count)])

\* read_mmap_token(mmap_area, index, count): the value it returns and the
\* exception it raises ("" when it returns)
read_mmap_token(area, index, count) ==
    IF ~(count > 0) THEN [value |-> 0, error |-> "AssertionError"]
    ELSE IF index < 0 \/ index + count > area_len(area)
    THEN [value |-> 0, error |-> "ValueError"]
    ELSE [value |-> read_loop(area, index, count, 0, 0), error |-> ""]

----------------------------------------------------------------------------
(* MMAP_Connection *)

\* DEFAULT_TOKEN_BYTES = 128, brought down with the size of the region
DEFAULT_TOKEN_BYTES == MaxTokenBytes

\* the caps of a client that names no mmap file
NoCaps == [namespace |-> FALSE, file |-> "", size |-> 0, token |-> -1,
           token_index |-> 0, token_bytes |-> DEFAULT_TOKEN_BYTES]

\* the object after __init__, init_from(server) and init_state.
\* mmap_client_token: 0 stands for None (get_caps tests its truth value);
\* mmap: "None" or "open"; mapped: the length of the mapping held;
\* closes: the calls of mmap.close() made; caps, verification, raised: the
\* caps of the last parse_client_caps, the value it read back (-1: none) and
\* the exception it raised ("": it returned)
NewConnection(supports, min_size) ==
    [pc |-> "init", supports_mmap |-> supports, min_mmap_size |-> min_size,
     mmap |-> "None", mapped |-> 0, mmap_size |-> 0,
     mmap_client_token |-> 0, mmap_client_token_index |-> 512,
     mmap_client_token_bytes |-> 0, mmap_client_namespace |-> FALSE,
     closes |-> 0, caps |-> NoCaps, verification |-> -1, raised |-> ""]

\* init_server_mmap(mmap_filename, mmap_size) on a file of file_len bytes
\* (not WIN32): the length mapped (0: None) and the size returned.
\* mmap.mmap(fileno, 0) maps the whole file; a length above the file's, or
\* below 0, raises, which is caught
init_server_mmap(file_len, size, can_open) ==
    IF ~can_open THEN [mapped |-> 0, size |-> 0]
    ELSE IF size < 0 \/ size > file_len THEN [mapped |-> 0, size |-> 0]
    ELSE IF size = 0 THEN [mapped |-> file_len, size |-> file_len]
    ELSE [mapped |-> size, size |-> file_len]

\* the first n bytes of the file, as mapped
mapped_area(area, n) == [i \in 0..(n - 1) |-> area[i]]

\* the file after stores through the mapping
file_after(area, sub) ==
    [i \in DOMAIN area |-> IF i \in DOMAIN sub THEN sub[i] ELSE area[i]]

\* variant: mmap_size is not reset
area_closed_size_kept(c) ==
    [c EXCEPT !.mmap = "None", !.mapped = 0, !.closes = c.closes + 1]

\* variant: the area is closed but self.mmap still refers to it
area_closed_reference_kept(c) ==
    [c EXCEPT !.mapped = 0, !.mmap_size = 0, !.closes = c.closes + 1]

\* self.mmap.close(); self.mmap = None; self.mmap_size = 0
area_closed(c) ==
    [c EXCEPT !.mmap = "None", !.mapped = 0, !.mmap_size = 0,
              !.closes = c.closes + 1]

\* get_int_uuid(): the values taken here
IntUuids == {1, 258}

\* the else branch of the verification: the server's own token is chosen and
\* written; randint(0, mmap_size - bytes) raises ValueError for an empty range
token_accepted(c, area) ==
    { LET c3 == [c EXCEPT !.mmap_client_token = uuid,
                          !.mmap_client_token_bytes = DEFAULT_TOKEN_BYTES]
      IN  IF c.mmap_size - DEFAULT_TOKEN_BYTES < 0
          THEN [conn |-> [c3 EXCEPT !.raised = "ValueError"], area |-> area]
          ELSE LET w == write_mmap_token(mapped_area(area, c.mapped), uuid, rnd,
                                         DEFAULT_TOKEN_BYTES)
               IN  [conn |-> [c3 EXCEPT !.mmap_client_token_index = rnd,
                                        !.raised = w.error],
                    area |-> file_after(area, w.area)]
      : uuid \in IntUuids,
        rnd \in 0..Max(0, c.mmap_size - DEFAULT_TOKEN_BYTES) }

\* parse_client_caps(c) with the file named found or not and opened or not:
\* every object and file it can leave.  The server's mmap_filename and WIN32
\* only decide which path is looked up: found is what the lookup gives
parse_client_caps(c0, c, found, can_open, area) ==
    LET c1 == [c0 EXCEPT !.pc = "parsed", !.mmap_client_namespace = c.namespace,
                         !.caps = c]
    IN  IF c.file = "" THEN {[conn |-> c1, area |-> area]}
        ELSE IF ~c0.supports_mmap \/ ~found THEN {[conn |-> c1, area |-> area]}
        ELSE LET m  == init_server_mmap(area_len(area), c.size, can_open)
                 c2 == [c1 EXCEPT !.mmap = IF m.mapped > 0 THEN "open" ELSE "None",
                                  !.mapped = m.mapped, !.mmap_size = m.size]
                 rd == read_mmap_token(mapped_area(area, m.mapped),
                                       c.token_index, c.token_bytes)
                 c3 == [c2 EXCEPT !.verification = rd.value]
             IN  IF ~(m.size > 0) THEN {[conn |-> c2, area |-> area]}
                 ELSE IF rd.error # ""
                 THEN {[conn |-> [c2 EXCEPT !.raised = rd.error], area |-> area]}
                 ELSE IF rd.value # c.token
                 THEN {[conn |-> area_closed(c3), area |-> area]}
                 ELSE IF m.size < c0.min_mmap_size
                 THEN {[conn |-> area_closed(c3), area |-> area]}
                 ELSE token_accepted(c3, area)

\* get_caps(): mmap_enabled, and the token attributes when they are given
get_caps(c) ==
    [mmap_enabled |-> c.mmap_size > 0,
     has_token |-> c.mmap_client_token # 0,
     namespace |-> c.mmap_client_namespace,
     token |-> c.mmap_client_token,
     token_index |-> c.mmap_client_token_index,
     token_bytes |-> c.mmap_client_token_bytes]

\* cleanup()
cleanup(c) ==
    IF c.mmap # "None"
    THEN [c EXCEPT !.mmap = "None", !.mapped = 0, !.mmap_size = 0,
                   !.closes = c.closes + 1]
    ELSE c

----------------------------------------------------------------------------
(* the producer and the consumer of the ring *)

NoView == [held |-> FALSE, offset |-> 0, length |-> 0, data |-> <<>>]

NoOp == [op |-> "none", ok |-> TRUE, chunks |-> <<>>, free |-> 0,
         data |-> <<>>, payload |-> <<>>, available |-> 0]

NoCall == [pc |-> "none", token |-> 0, index |-> 0, count |-> 0, fill |-> 0,
           error |-> "", value |-> 0]

\* no init_client_mmap / init_server_mmap call has been made
NoInit == [pc |-> "none"]

\* the producer is outside mmap_write and has written nothing
IdleProducer == [pc |-> "idle"]

\* the consumer is outside mmap_read
IdleConsumer == [pc |-> "idle"]

NoScenario == [pc |-> "none"]

\* the parts of the state a specification does not use
NothingElse ==
    /\ init_call = NoInit
    /\ prod = IdleProducer
    /\ cons = IdleConsumer
    /\ scenario = NoScenario

\* the region as mmap gives it for a new file: all zero
ZeroArea == [i \in 0..(mmap_size - 1) |-> 0]

Init ==
    /\ mmap_area = ZeroArea
    /\ outstanding = <<>>
    /\ view = NoView
    /\ released = <<>>
    /\ furthest = 0
    /\ lastOp = NoOp
    /\ token_call = NoCall
    /\ conn = NewConnection(FALSE, 0)
    /\ NothingElse

\* mmap_write(mmap_area, mmap_size, data) is called and returns
WriteCall(op, data) ==
    \E r \in {mmap_write(mmap_area, mmap_size, data)} :
        /\ mmap_area' = r.area
        /\ outstanding' = IF r.ok
                          THEN Append(outstanding, [chunks |-> r.chunks, data |-> data])
                          ELSE outstanding
        /\ lastOp' = [op |-> op, ok |-> r.ok, chunks |-> r.chunks,
                      free |-> r.free, data |-> <<>>, payload |-> data,
                      available |-> available_space(write_start(mmap_area),
                                                    write_end(mmap_area), mmap_size)]

\* the producer calls mmap_write(mmap_area, mmap_size, data)
ProducerWrite ==
    /\ Len(outstanding) < MaxOutstanding
    /\ \E data \in Payloads : WriteCall("write", data)
    /\ UNCHANGED <<view, released, furthest, token_call, conn,
                   init_call, prod, cons, scenario>>

\* the consumer calls mmap_read(mmap_area, *chunks) on the oldest descriptor
\* and is done with the bytes when the call returns
ReadOldest ==
    /\ outstanding # <<>>
    /\ \E d \in {Head(outstanding)} : \E r \in {mmap_read(mmap_area, d.chunks)} :
           /\ mmap_area' = r.area
           /\ outstanding' = Tail(outstanding)
           /\ lastOp' = [op |-> "read", ok |-> TRUE, chunks |-> d.chunks,
                         free |-> 0, data |-> r.data, payload |-> d.data,
                         available |-> 0]

ConsumerRead ==
    /\ ReadOldest
    /\ UNCHANGED <<view, released, furthest, token_call, conn,
                 init_call, prod, cons, scenario>>

Next == ProducerWrite \/ ConsumerRead

Spec == Init /\ [][Next]_vars

----------------------------------------------------------------------------
(* the consumer keeps using the array mmap_read returned *)

\* mmap_read on the oldest descriptor; a one-chunk descriptor gives the
\* consumer an array over the region's own bytes
ConsumerReadView ==
    /\ ReadOldest
    /\ LET d == Head(outstanding)
       IN  view' = IF mmap_read(mmap_area, d.chunks).zerocopy
                   THEN [held |-> TRUE, offset |-> d.chunks[1][1],
                         length |-> d.chunks[1][2],
                         data |-> mmap_read(mmap_area, d.chunks).data]
                   ELSE NoView
    /\ UNCHANGED <<released, furthest, token_call, conn,
                 init_call, prod, cons, scenario>>

\* the consumer has finished with the array mmap_read gave it
ConsumerDone ==
    /\ view.held
    /\ view' = NoView
    /\ lastOp' = [NoOp EXCEPT !.op = "done"]
    /\ UNCHANGED <<mmap_area, outstanding, released, furthest, token_call, conn,
                 init_call, prod, cons, scenario>>

NextView == ProducerWrite \/ ConsumerReadView \/ ConsumerDone

SpecView == Init /\ [][NextView]_vars

----------------------------------------------------------------------------
(* the consumer reads a descriptor again *)

\* what the consumer keeps of the descriptors it has read
Remember(rel, chunks) ==
    IF Len(rel) < MaxReleased THEN Append(rel, chunks) ELSE Append(Tail(rel), chunks)

\* mmap_read on the oldest descriptor, which the consumer keeps
ConsumerReadKeep ==
    /\ ReadOldest
    /\ LET chunks == Head(outstanding).chunks
       IN  /\ released' = Remember(released, chunks)
           /\ furthest' = chunks[Len(chunks)][1] + chunks[Len(chunks)][2]
    /\ UNCHANGED <<view, token_call, conn,
                 init_call, prod, cons, scenario>>

\* mmap_read called again on a descriptor that was read before
ConsumerReadAgain ==
    /\ \E k \in 1..Len(released) :
        \E r \in {mmap_read(mmap_area, released[k])} :
            /\ mmap_area' = r.area
            /\ lastOp' = [op |-> "reread", ok |-> TRUE, chunks |-> released[k],
                          free |-> 0, data |-> r.data, payload |-> <<>>,
                          available |-> 0]
    /\ UNCHANGED <<outstanding, view, released, furthest, token_call, conn,
                 init_call, prod, cons, scenario>>

NextReread == ProducerWrite \/ ConsumerReadKeep \/ ConsumerReadAgain

SpecReread == Init /\ [][NextReread]_vars

----------------------------------------------------------------------------
(* calls of write_mmap_token and read_mmap_token *)

\* the token values given: the ends of the range of every width, and 0x0102
Tokens ==
    {0, 1, 258} \cup { 256 ^ w - 1 : w \in 1..MaxTokenBytes }
                \cup { 256 ^ w     : w \in 1..MaxTokenBytes }
                \cup { 256 ^ w + 1 : w \in 1..MaxTokenBytes }

\* a region whose bytes all hold the same value
FilledArea(b) == [i \in 0..(mmap_size - 1) |-> b]

InitToken ==
    /\ \E b \in {0, 170} :
        /\ mmap_area = FilledArea(b)
        /\ \E t \in Tokens, i \in (-1)..mmap_size, c \in 0..MaxTokenBytes :
            token_call = [pc |-> "call", token |-> t, index |-> i, count |-> c,
                          fill |-> b, error |-> "", value |-> 0]
    /\ outstanding = <<>>
    /\ view = NoView
    /\ released = <<>>
    /\ furthest = 0
    /\ lastOp = NoOp
    /\ conn = NewConnection(FALSE, 0)
    /\ NothingElse

\* write_mmap_token(mmap_area, token, index, count)
TokenWrite ==
    /\ token_call.pc = "call"
    /\ \E r \in {write_mmap_token(mmap_area, token_call.token, token_call.index,
                                  token_call.count)} :
        /\ mmap_area' = r.area
        /\ token_call' = [token_call EXCEPT !.pc = "written", !.error = r.error]
    /\ UNCHANGED <<outstanding, view, released, furthest, lastOp, conn,
                 init_call, prod, cons, scenario>>

\* read_mmap_token(mmap_area, index, count) at the place of the write
TokenRead ==
    /\ token_call.pc = "written"
    /\ \E r \in {read_mmap_token(mmap_area, token_call.index, token_call.count)} :
        token_call' = [token_call EXCEPT !.pc = "read", !.value = r.value,
                                         !.error = r.error]
    /\ UNCHANGED <<mmap_area, outstanding, view, released, furthest, lastOp, conn,
                 init_call, prod, cons, scenario>>

NextToken == TokenWrite \/ TokenRead

SpecToken == InitToken /\ [][NextToken]_vars

----------------------------------------------------------------------------
(* the handshake on the server *)

\* what the client wrote into its file before it sent its caps: a token of
\* some width somewhere in a new region (the header included), or a file of
\* one byte
ClientFiles ==
    { write_mmap_token(ZeroArea, t[1], t[2], t[3]).area :
        t \in { <<258, 9, 2>>, <<1, 0, 1>>, <<258, mmap_size - 2, 2>> } }
    \cup { [i \in 0..0 |-> 7] }

\* the caps a client sends; token -1 stands for no token (None equals no value
\* read back); the index and width are the client's to choose
ClientCaps ==
    [namespace : BOOLEAN, file : {"", "mmap"},
     size : {0, 1, mmap_size, mmap_size + 1},
     token : {-1, 1, 7, 258},
     token_index : {-1, 0, 9, mmap_size - 2, mmap_size - 1},
     token_bytes : 0..MaxTokenBytes]

InitConn ==
    /\ mmap_area \in ClientFiles
    /\ \E s \in BOOLEAN, m \in {0, mmap_size, mmap_size + 1} :
          conn = NewConnection(s, m)
    /\ outstanding = <<>>
    /\ view = NoView
    /\ released = <<>>
    /\ furthest = 0
    /\ lastOp = NoOp
    /\ token_call = NoCall
    /\ NothingElse

\* parse_client_caps(c), called once on a connection
ParseClientCaps ==
    /\ conn.pc = "init"
    /\ \E c \in ClientCaps, found \in BOOLEAN, can_open \in BOOLEAN :
        \E r \in parse_client_caps(conn, c, found, can_open, mmap_area) :
            /\ conn' = r.conn
            /\ mmap_area' = r.area
    /\ UNCHANGED <<outstanding, view, released, furthest, lastOp, token_call,
                 init_call, prod, cons, scenario>>

\* cleanup(), at any time
Cleanup ==
    /\ conn' = cleanup(conn)
    /\ UNCHANGED <<mmap_area, outstanding, view, released, furthest, lastOp,
                   token_call, init_call, prod, cons, scenario>>

NextConn == ParseClientCaps \/ Cleanup

SpecConn == InitConn /\ [][NextConn]_vars

----------------------------------------------------------------------------
(* properties of the ring *)

\* the chunks of the descriptors not read yet, as <<descriptor, chunk>>
LiveChunks ==
    { kj \in (1..Len(outstanding)) \X (1..2) : kj[2] <= Len(outstanding[kj[1]].chunks) }

\* the bytes of the region a chunk <<offset, length>> covers
ChunkBytes(c) == c[1]..(c[1] + c[2] - 1)

LiveBytes(kj) == ChunkBytes(outstanding[kj[1]].chunks[kj[2]])

data_start == int_from_buffer(mmap_area, 0)
data_end == int_from_buffer(mmap_area, 4)

C2_SucceedsIffFreeAtLeast ==
    lastOp.op = "write" =>
        (lastOp.ok <=> /\ Len(lastOp.payload) <= mmap_size - 8
                       /\ lastOp.available >= Len(lastOp.payload))

\* C2 amended: mmap_write returns a descriptor if and only if the payload is
\* no longer than N - 8 and the free space is more than its length; a payload
\* as long as the free space is refused
C2_SucceedsIffFreeAbove ==
    lastOp.op = "write" =>
        (lastOp.ok <=> /\ Len(lastOp.payload) <= mmap_size - 8
                       /\ lastOp.available > Len(lastOp.payload))

\* a payload of exactly N - 8 bytes refused by the empty buffer
C2_Witness ==
    /\ lastOp.op = "write"
    /\ ~lastOp.ok
    /\ Len(lastOp.payload) = mmap_size - 8
    /\ lastOp.available = mmap_size - 8
    /\ outstanding = <<>>

\* C3: a mmap_write that returns no descriptor leaves data_start, data_end
\* and every byte of the data area as they were
C3_FailedWriteChangesNothing ==
    [][(lastOp'.op = "write" /\ ~lastOp'.ok) => mmap_area' = mmap_area]_vars

\* a payload that would fit an empty buffer, refused while payloads are unread
C3_Witness ==
    /\ lastOp.op = "write"
    /\ ~lastOp.ok
    /\ Len(lastOp.payload) <= mmap_size - 8
    /\ Len(lastOp.payload) > 0
    /\ outstanding # <<>>

\* C4: mmap_read of a descriptor returns the bytes of the payload that
\* mmap_write was given, for one chunk and for two
C4_RoundTrip ==
    lastOp.op = "read" => lastOp.data = lastOp.payload

\* a payload split across the end of the region, read back
C4_Witness ==
    /\ lastOp.op = "read"
    /\ Len(lastOp.chunks) = 2
    /\ lastOp.chunks[1][2] > 0
    /\ lastOp.chunks[2][2] > 0
    /\ lastOp.data = lastOp.payload

\* C5: while the consumer uses the array mmap_read returned, the bytes under
\* it are those of the payload
C5_ViewStable ==
    view.held => region_bytes(mmap_area, view.offset, view.length) = view.data

\* C6: mmap_write leaves the data_start word as it was; mmap_read leaves the
\* data_end word and the data area as they were
C6_SingleWriterPerCursor ==
    [][/\ lastOp'.op = "write" =>
            region_bytes(mmap_area', 0, 4) = region_bytes(mmap_area, 0, 4)
       /\ lastOp'.op = "read" =>
            \A i \in 4..(mmap_size - 1) : mmap_area'[i] = mmap_area[i]]_vars

\* a read has stored data_start while a later payload is still unread
C6_Witness ==
    /\ lastOp.op = "read"
    /\ outstanding # <<>>
    /\ data_start > 8
    /\ data_end # data_start

\* C7: reading a descriptor again leaves data_start at the end of the newest
\* descriptor read, and the unread payloads keep their bytes
C7_IdempotentRelease ==
    /\ furthest # 0 => data_start = furthest
    /\ \A k \in 1..Len(outstanding) :
            join_chunks(mmap_area, outstanding[k].chunks) = outstanding[k].data

----------------------------------------------------------------------------
(* properties of the token *)

\* a call whose width is at least 1, whose bytes lie in the region and whose
\* value fits the width
TokenCallInRegion ==
    /\ token_call.count >= 1
    /\ token_call.index >= 0
    /\ token_call.index + token_call.count <= mmap_size

TokenFits ==
    /\ token_call.token >= 0
    /\ token_call.token < 256 ^ token_call.count

\* C9: after write_mmap_token the byte at offset + i is (v >> 8*i) mod 256,
\* no other byte has changed, and read_mmap_token gives v back
C9_TokenRoundTrip ==
    (token_call.pc \in {"written", "read"} /\ TokenCallInRegion /\ TokenFits) =>
        /\ token_call.error = ""
        /\ \A j \in 0..(mmap_size - 1) :
              mmap_area[j] =
                 IF token_call.index <= j /\ j < token_call.index + token_call.count
                 THEN (token_call.token \div (256 ^ (j - token_call.index))) % 256
                 ELSE token_call.fill
        /\ token_call.pc = "read" => token_call.value = token_call.token

\* 0x0102 written on two bytes over bytes that held 0xAA, and read back
C9_Witness ==
    /\ token_call.pc = "read"
    /\ token_call.token = 258
    /\ token_call.count = 2
    /\ token_call.fill = 170
    /\ token_call.index = 9
    /\ token_call.value = 258

\* C10: write_mmap_token fails with "token value is too big" exactly when the
\* value is 256^width or more, and returns for every smaller value
C10_TooBigIffNoFit ==
    (token_call.pc = "written" /\ TokenCallInRegion /\ token_call.token >= 0) =>
        /\ token_call.error = "token value is too big"
              <=> token_call.token >= 256 ^ token_call.count
        /\ token_call.token < 256 ^ token_call.count => token_call.error = ""

\* the smallest value that does not fit two bytes, refused
C10_Witness ==
    /\ token_call.pc = "written"
    /\ TokenCallInRegion
    /\ token_call.count = 2
    /\ token_call.token = 65536
    /\ token_call.error = "token value is too big"

----------------------------------------------------------------------------
(* properties of the handshake *)

\* parse_client_caps has read a value back that is not the client's token
TokenMismatch ==
    /\ conn.pc = "parsed"
    /\ conn.verification # -1
    /\ conn.verification # conn.caps.token

\* C8: when the value read back differs from the token the client announced,
\* the connection holds no region (mmap None, mmap_size 0), get_caps gives
\* mmap_enabled false and no token, and the file is as the client left it
C8_MismatchFailsClosed ==
    TokenMismatch =>
        /\ conn.mmap = "None"
        /\ conn.mmap_size = 0
        /\ ~get_caps(conn).mmap_enabled
        /\ ~get_caps(conn).has_token
        /\ mmap_area \in ClientFiles

\* the client announces 1 where its file holds 0x0102
C8_Witness ==
    /\ TokenMismatch
    /\ conn.verification = 258
    /\ conn.caps.token = 1
    /\ conn.closes = 1

----------------------------------------------------------------------------
(* init_server_mmap called on its own: the server opens the client's file *)

\* the lengths of the client's file, and the sizes the client announces
FileLengths == 0..(mmap_size + 1)
AnnouncedSizes == (-1)..(mmap_size + 1)

InitOpen ==
    /\ mmap_area = ZeroArea
    /\ outstanding = <<>>
    /\ view = NoView
    /\ released = <<>>
    /\ furthest = 0
    /\ lastOp = NoOp
    /\ token_call = NoCall
    /\ conn = NewConnection(FALSE, 0)
    /\ prod = IdleProducer
    /\ cons = IdleConsumer
    /\ scenario = NoScenario
    /\ \E n \in FileLengths, size \in AnnouncedSizes, can_open \in BOOLEAN :
          init_call = [pc |-> "call", op |-> "init_server_mmap", file_len |-> n,
                       size |-> size, can_open |-> can_open,
                       mapped |-> 0, mmap_size |-> 0]

\* init_server_mmap(mmap_filename, mmap_size)
ServerOpen ==
    /\ init_call.pc = "call"
    /\ init_call.op = "init_server_mmap"
    /\ \E r \in {init_server_mmap(init_call.file_len, init_call.size,
                                  init_call.can_open)} :
          init_call' = [init_call EXCEPT !.pc = "done", !.mapped = r.mapped,
                                         !.mmap_size = r.size]
    /\ UNCHANGED <<mmap_area, outstanding, view, released, furthest, lastOp,
                   token_call, conn, prod, cons, scenario>>

NextOpen == ServerOpen

SpecOpen == InitOpen /\ [][NextOpen]_vars

\* C11: when init_server_mmap is given a non-zero expected size that differs
\* from the actual size of the file, it fails: it returns no mapped area and
\* the size 0
C11_SizeMismatchFails ==
    (/\ init_call.pc = "done"
     /\ init_call.op = "init_server_mmap"
     /\ init_call.can_open
     /\ init_call.size # 0
     /\ init_call.size # init_call.file_len)
        => (init_call.mapped = 0 /\ init_call.mmap_size = 0)

----------------------------------------------------------------------------
(* mmap_read given a descriptor that mmap_write did not return *)

\* descriptors with a range that is not inside the data area [8, mmap_size)
CorruptDescriptors ==
    { << <<0, 8>> >>,
      << <<4, 6>> >>,
      << <<8, mmap_size - 7>> >>,
      << <<mmap_size, 1>> >>,
      << <<mmap_size - 2, 2>>, <<0, 4>> >>,
      << <<mmap_size - 1, 3>>, <<8, 1>> >>,
      << <<8, 1>>, <<mmap_size + 1, 1>> >>,
      << <<mmap_size + 1, 1>>, <<8, 1>> >> }

\* the channel is used until a descriptor was found corrupt
ChannelTrusted == lastOp.op # "read_corrupt"

TrustedWrite == ChannelTrusted /\ ProducerWrite

TrustedRead == ChannelTrusted /\ ConsumerRead

\* the consumer calls mmap_read(mmap_area, *chunks) on a descriptor from the peer
CorruptRead ==
    /\ ChannelTrusted
    /\ \E d \in CorruptDescriptors : \E r \in {mmap_read(mmap_area, d)} :
          /\ mmap_area' = r.area
          /\ lastOp' = [op |-> "read_corrupt", ok |-> r.error = "", chunks |-> d,
                        free |-> 0, data |-> r.data, payload |-> <<>>,
                        available |-> 0]
    /\ UNCHANGED <<outstanding, view, released, furthest, token_call, conn,
                   init_call, prod, cons, scenario>>

NextCorrupt == TrustedWrite \/ TrustedRead \/ CorruptRead

SpecCorrupt == Init /\ [][NextCorrupt]_vars

\* C12: a descriptor with a range outside [8, mmap_size) is rejected: mmap_read
\* returns no bytes (none of the header) and leaves data_start as it was
C12_CorruptDescriptorRejected ==
    [][lastOp'.op = "read_corrupt"
          => /\ lastOp'.data = <<>>
             /\ ~lastOp'.ok
             /\ int_from_buffer(mmap_area', 0) = int_from_buffer(mmap_area, 0)]_vars

----------------------------------------------------------------------------
(* mmap_write and mmap_read one load, copy or store at a time: the producer
   and the consumer are two processes and their steps interleave *)

\* the descriptors returned by mmap_write that the consumer is not done with:
\* those not read yet and the one it is reading
InFlight == Len(outstanding) + (IF cons.pc = "idle" THEN 0 ELSE 1)

\* mmap_write(mmap_area, mmap_size, data) is entered and loads data_start
WriteLoadStart ==
    /\ prod.pc = "idle"
    /\ InFlight < MaxOutstanding
    /\ \E data \in Payloads :
          prod' = [pc |-> "loaded_start", data |-> data,
                   start |-> write_start(mmap_area)]
    /\ UNCHANGED <<mmap_area, outstanding, view, released, furthest, lastOp,
                   token_call, conn, init_call, cons, scenario>>

\* it loads data_end and makes its size checks: it returns None, or goes on
WriteLoadEnd ==
    /\ prod.pc = "loaded_start"
    /\ \E p \in {write_plan(prod.start, write_end(mmap_area), mmap_size,
                            Len(prod.data))} :
          prod' = IF p.ok
                  THEN [pc |-> "copy", data |-> prod.data, rest |-> prod.data,
                        chunks |-> p.chunks, k |-> 1, data_end |-> p.data_end]
                  ELSE IdleProducer
    /\ UNCHANGED <<mmap_area, outstanding, view, released, furthest, lastOp,
                   token_call, conn, init_call, cons, scenario>>

\* variant: data_end is stored as soon as one chunk has been copied
store_after_first_copy(k, n) == IF k >= 1 THEN "store" ELSE "copy"

\* what follows the copy of chunk k of n: the next chunk, and after the last
\* one the store of data_end
after_copy(k, n) == IF k = n THEN "store" ELSE "copy"

\* mmap_area.seek(...); mmap_area.write(...): one chunk is copied
WriteCopy ==
    /\ prod.pc = "copy"
    /\ \E c \in {prod.chunks[prod.k]} :
          /\ mmap_area' = seek_write(mmap_area, c[1], SubSeq(prod.rest, 1, c[2]))
          /\ prod' = [prod EXCEPT
                         !.rest = SubSeq(prod.rest, c[2] + 1, Len(prod.rest)),
                         !.k = prod.k + 1,
                         !.pc = after_copy(prod.k, Len(prod.chunks))]
    /\ UNCHANGED <<outstanding, view, released, furthest, lastOp,
                   token_call, conn, init_call, cons, scenario>>

\* data_end.value = ...; the chunks are returned and sent to the consumer
WriteStoreEnd ==
    /\ prod.pc = "store"
    /\ mmap_area' = set_uint32(mmap_area, 4, prod.data_end)
    /\ outstanding' = Append(outstanding, [chunks |-> prod.chunks, data |-> prod.data])
    /\ prod' = IdleProducer
    /\ UNCHANGED <<view, released, furthest, lastOp,
                   token_call, conn, init_call, cons, scenario>>

\* mmap_read(mmap_area, *chunks) is entered with the oldest descriptor
ReadEnter ==
    /\ cons.pc = "idle"
    /\ outstanding # <<>>
    /\ cons' = [pc |-> IF Len(Head(outstanding).chunks) = 1 THEN "store" ELSE "copy",
                chunks |-> Head(outstanding).chunks, k |-> 1, data |-> <<>>,
                payload |-> Head(outstanding).data]
    /\ outstanding' = Tail(outstanding)
    /\ UNCHANGED <<mmap_area, view, released, furthest, lastOp,
                   token_call, conn, init_call, prod, scenario>>

\* mmap_area.seek(offset); data.append(mmap_area.read(length))
ReadCopy ==
    /\ cons.pc = "copy"
    /\ \E c \in {cons.chunks[cons.k]} :
          cons' = [cons EXCEPT !.data = cons.data \o seek_read(mmap_area, c[1], c[2]),
                               !.pc = "store"]
    /\ UNCHANGED <<mmap_area, outstanding, view, released, furthest, lastOp,
                   token_call, conn, init_call, prod, scenario>>

\* data_start.value = offset+length, for the chunk just read; after the last
\* chunk mmap_read returns: the joined bytes, or for a descriptor of one
\* chunk the array over the region, which the consumer then holds
ReadStore ==
    /\ cons.pc = "store"
    /\ \E c \in {cons.chunks[cons.k]} :
          mmap_area' = store_data_start(mmap_area, c[1] + c[2])
    /\ cons' = IF cons.k < Len(cons.chunks)
               THEN [cons EXCEPT !.k = cons.k + 1, !.pc = "copy"]
               ELSE IF Len(cons.chunks) = 1
               THEN [cons EXCEPT !.pc = "view"]
               ELSE IdleConsumer
    /\ UNCHANGED <<outstanding, view, released, furthest, lastOp,
                   token_call, conn, init_call, prod, scenario>>

\* the consumer takes the bytes out of the array and lets go of it
ReadViewDone ==
    /\ cons.pc = "view"
    /\ cons' = IdleConsumer
    /\ UNCHANGED <<mmap_area, outstanding, view, released, furthest, lastOp,
                   token_call, conn, init_call, prod, scenario>>

NextSteps ==
    \/ WriteLoadStart \/ WriteLoadEnd \/ WriteCopy \/ WriteStoreEnd
    \/ ReadEnter \/ ReadCopy \/ ReadStore \/ ReadViewDone

SpecSteps == Init /\ [][NextSteps]_vars

\* a value a cursor may hold: 0, or an offset of the data area
CursorInRange(v) == v = 0 \/ (8 <= v /\ v < mmap_size)

\* C13: in every state reached from zeroed cursors, the states between the
\* single stores of one mmap_read or mmap_write included, data_start and
\* data_end each hold 0 or a value in [8, mmap_size)
C13_CursorsInRange == CursorInRange(data_start) /\ CursorInRange(data_end)

----------------------------------------------------------------------------
(* a producer that keeps a payload refused as full and tries it again *)

\* mmap_write returned None for a payload that the region is not too small for
RefusedAsFull == ~lastOp'.ok /\ ~area_too_small(Len(lastOp'.payload), mmap_size)

\* the producer calls mmap_write and keeps the payload if the area is full
WriteOrKeep ==
    /\ prod.pc = "idle"
    /\ Len(outstanding) < MaxOutstanding
    /\ \E data \in Payloads :
          /\ WriteCall("write", data)
          /\ prod' = IF RefusedAsFull THEN [pc |-> "retry", data |-> data]
                     ELSE IdleProducer
    /\ UNCHANGED <<view, released, furthest, token_call, conn,
                   init_call, cons, scenario>>

\* the producer calls mmap_write again with the payload it kept
WriteAgain ==
    /\ prod.pc = "retry"
    /\ Len(outstanding) < MaxOutstanding
    /\ WriteCall("retry", prod.data)
    /\ prod' = IF lastOp'.ok THEN IdleProducer ELSE prod
    /\ UNCHANGED <<view, released, furthest, token_call, conn,
                   init_call, cons, scenario>>

NextRetry == WriteOrKeep \/ WriteAgain \/ ConsumerRead

SpecRetry == Init /\ [][NextRetry]_vars

\* the last call tried a kept payload again when the consumer had read every
\* descriptor written before
RetriedWhenDrained ==
    /\ lastOp.op = "retry"
    /\ IF lastOp.ok THEN Len(outstanding) = 1 ELSE outstanding = <<>>

\* C14, as claimed: a payload of length L <= mmap_size-8 that was refused as
\* full is accepted when the write is tried again after the consumer has read
\* every outstanding descriptor
C14_RetryAccepted == RetriedWhenDrained => lastOp.ok

\* C14, amended: a payload of length L < mmap_size-8 that was refused as full
\* is accepted when the write is tried again after the consumer has read every
\* outstanding descriptor
C14_RetryAcceptedBelowCapacity ==
    (RetriedWhenDrained /\ Len(lastOp.payload) < mmap_size - 8) => lastOp.ok

\* a payload one byte short of the capacity, refused while data was
\* outstanding, is accepted after the consumer has read that data
C14_Witness ==
    /\ RetriedWhenDrained
    /\ lastOp.ok
    /\ Len(lastOp.payload) = mmap_size - 9
    /\ data_start > 8

------------------------------------------------------------

----------------------------------------------------------------------------
(* the producer's writes counted up to the first descriptor of two pairs:
   how many bytes were written, and whether a write started again at 8 *)

\* the count stops here: more than the data area twice over
WrittenCap == 2 * (mmap_size - 8) + 1

\* nothing written yet
NothingWritten == [pc |-> "idle", written |-> 0, split |-> FALSE, restart |-> FALSE]

\* a descriptor of two pairs was returned: the count before it is not kept
SplitReturned == [pc |-> "idle", written |-> 0, split |-> TRUE, restart |-> FALSE]

InitWrap ==
    /\ mmap_area = ZeroArea
    /\ outstanding = <<>>
    /\ view = NoView
    /\ released = <<>>
    /\ furthest = 0
    /\ lastOp = NoOp
    /\ token_call = NoCall
    /\ conn = NewConnection(FALSE, 0)
    /\ init_call = NoInit
    /\ cons = IdleConsumer
    /\ scenario = NoScenario
    /\ prod = NothingWritten

\* the descriptor has two pairs
is_split(chunks) == Len(chunks) = 2

\* one pair at offset 8, written when data_end was further on
is_restart(chunks, end) == Len(chunks) = 1 /\ chunks[1][1] = 8 /\ end # 8

\* the producer calls mmap_write; a successful write is counted as long as no
\* write has returned two pairs
WriteCounted ==
    /\ Len(outstanding) < MaxOutstanding
    /\ \E data \in Payloads :
          /\ WriteCall("write", data)
          /\ prod' = IF ~lastOp'.ok THEN prod
                     ELSE IF prod.split \/ is_split(lastOp'.chunks) THEN SplitReturned
                     ELSE [prod EXCEPT
                             !.written = Min(WrittenCap, prod.written + Len(data)),
                             !.restart = prod.restart
                                         \/ is_restart(lastOp'.chunks,
                                                       write_end(mmap_area))]
    /\ UNCHANGED <<view, released, furthest, token_call, conn,
                   init_call, cons, scenario>>

NextWrap == WriteCounted \/ ConsumerRead

SpecWrap == InitWrap /\ [][NextWrap]_vars

\* the payloads written before any descriptor of two pairs was returned add
\* up to more than twice mmap_size-8
WrittenTwiceOver == prod.written > 2 * (mmap_size - 8)

\* C15, as claimed: in any run where the successfully written payloads add up
\* to more than mmap_size-8 twice over, at least one write has returned a
\* descriptor of two pairs
C15_SplitSeen == WrittenTwiceOver => prod.split

\* C15, amended: in any such run at least one write has wrapped around: it
\* returned a descriptor of two pairs, or it started again at offset 8
C15_WrapSeen == WrittenTwiceOver => (prod.split \/ prod.restart)

\* more than twice the data area was written and read with no descriptor of
\* two pairs, every wrap made by starting again at offset 8
C15_Witness == WrittenTwiceOver /\ ~prod.split /\ prod.restart /\ outstanding = <<>>

----------------------------------------------------------------------------
(* two payloads A and B in a region of 64 MiB: mmap_write and mmap_read
   followed on the two cursors alone, the bytes left out *)

MiB == 1024 * 1024

\* the region of the scenario
ScenarioSize == 64 * MiB

\* the payload lengths tried
ScenarioLengths == { k * MiB : k \in 1..MaxPayloadMiB }

\* mmap_write(mmap_area, mmap_size, data) on the cursors: what it returns and
\* the cursors it leaves
cursor_write(sc, l) ==
    LET p == write_plan(Max(8, sc.data_start), Max(8, sc.data_end), sc.size, l)
    IN  [ok |-> p.ok, chunks |-> p.chunks, path |-> p.path,
         data_start |-> sc.data_start,
         data_end |-> IF p.ok THEN p.data_end ELSE sc.data_end]

\* mmap_read(mmap_area, *chunks) on the cursors: data_start follows the chunks
cursor_read(sc, chunks) ==
    IF chunks = <<>> THEN sc.data_start
    ELSE chunks[Len(chunks)][1] + chunks[Len(chunks)][2]

NoWrite == [ok |-> FALSE, chunks |-> <<>>, path |-> "none",
            data_start |-> 0, data_end |-> 0]

InitScenario ==
    /\ mmap_area = ZeroArea
    /\ outstanding = <<>>
    /\ view = NoView
    /\ released = <<>>
    /\ furthest = 0
    /\ lastOp = NoOp
    /\ token_call = NoCall
    /\ conn = NewConnection(FALSE, 0)
    /\ init_call = NoInit
    /\ prod = IdleProducer
    /\ cons = IdleConsumer
    /\ \E a \in ScenarioLengths, b \in ScenarioLengths :
          scenario = [pc |-> "new", size |-> ScenarioSize, a |-> a, b |-> b,
                      data_start |-> 0, data_end |-> 0,
                      first |-> NoWrite, second |-> NoWrite, third |-> NoWrite]

ScenarioRest ==
    UNCHANGED <<mmap_area, outstanding, view, released, furthest, lastOp,
                token_call, conn, init_call, prod, cons>>

\* A is written into the new region
ScenarioWriteA ==
    /\ scenario.pc = "new"
    /\ \E r \in {cursor_write(scenario, scenario.a)} :
          scenario' = [scenario EXCEPT !.pc = "a_written", !.first = r,
                                       !.data_end = r.data_end]
    /\ ScenarioRest

\* B is written while A has not been read
ScenarioWriteB ==
    /\ scenario.pc = "a_written"
    /\ \E r \in {cursor_write(scenario, scenario.b)} :
          scenario' = [scenario EXCEPT !.pc = "b_tried", !.second = r,
                                       !.data_end = r.data_end]
    /\ ScenarioRest

\* the consumer reads A
ScenarioReadA ==
    /\ scenario.pc = "b_tried"
    /\ scenario' = [scenario EXCEPT
                       !.pc = "a_read",
                       !.data_start = cursor_read(scenario, scenario.first.chunks)]
    /\ ScenarioRest

\* B, if it was refused, is written again
ScenarioWriteBAgain ==
    /\ scenario.pc = "a_read"
    /\ ~scenario.second.ok
    /\ \E r \in {cursor_write(scenario, scenario.b)} :
          scenario' = [scenario EXCEPT !.pc = "b_retried", !.third = r,
                                       !.data_end = r.data_end]
    /\ ScenarioRest

NextScenario ==
    ScenarioWriteA \/ ScenarioWriteB \/ ScenarioReadA \/ ScenarioWriteBAgain

SpecScenario == InitScenario /\ [][NextScenario]_vars

\* the scenario of the example has run to its end: A of 40 MiB, B of 30 MiB
ExampleRun ==
    /\ scenario.pc = "b_retried"
    /\ scenario.a = 40 * MiB
    /\ scenario.b = 30 * MiB

\* A is placed at (8, 40 MiB); B is refused and the cursors stay as A's write
\* left them; after A is read B is accepted
ExampleUpToRetry ==
    /\ scenario.first.ok
    /\ scenario.first.chunks = << <<8, 40 * MiB>> >>
    /\ ~scenario.second.ok
    /\ scenario.second.data_start = scenario.first.data_start
    /\ scenario.second.data_end = scenario.first.data_end
    /\ scenario.third.ok

\* C16, as claimed: with N = 64 MiB, A of 40 MiB is written at (8, 40 MiB); B
\* of 30 MiB is refused as full and changes nothing; after A is read B is
\* accepted and is placed by starting again at offset 8, at (8, 30 MiB)
C16_ExampleRestart ==
    ExampleRun => /\ ExampleUpToRetry
                  /\ scenario.third.chunks = << <<8, 30 * MiB>> >>

\* C16, amended: ... after A is read B is accepted and is split: 24 MiB - 8
\* bytes from data_end = 8 + 40 MiB to the end of the region, and the other
\* 6 MiB + 8 bytes at offset 8
C16_ExampleSplit ==
    ExampleRun => /\ ExampleUpToRetry
                  /\ scenario.third.chunks = << <<8 + 40 * MiB, 24 * MiB - 8>>,
                                                <<8, 6 * MiB + 8>> >>
                  /\ scenario.data_end = 8 + 6 * MiB + 8

\* the example has run: B was refused while A was unread and accepted afterwards
C16_Witness == ExampleRun /\ ~scenario.second.ok /\ scenario.third.ok

----------------------------------------------------------------------------
(* the token the server writes into the client's region *)

\* parse_client_caps has accepted the region and written the server's token
TokenWritten ==
    /\ conn.pc = "init"
    /\ conn'.pc = "parsed"
    /\ conn'.mmap = "open"
    /\ conn'.mmap_client_token # 0
    /\ conn'.raised = ""

\* C17: the index the server chooses for its token satisfies index >= 8 and
\* index + token_bytes <= mmap_size, so that writing the token leaves the two
\* cursor words as they were
C17_TokenClearOfCursors ==
    [][TokenWritten =>
          /\ conn'.mmap_client_token_index >= 8
          /\ conn'.mmap_client_token_index + conn'.mmap_client_token_bytes
                <= conn'.mmap_size
          /\ region_bytes(mmap_area', 0, 8) = region_bytes(mmap_area, 0, 8)]_vars

----------------------------------------------------------------------------
(* init_client_mmap on POSIX, with assert statements in force.  A size is
   written [pages |-> p, rest |-> r] for p*PageUnit + r bytes, 0 <= r <
   PageUnit, so that 4 GiB can be compared *)

\* unit = max(4096, mmap.PAGESIZE), for pages of 4096 bytes
PageUnit == 4096

\* 64*1024*1024 bytes, in pages
MinPages == (64 * 1024 * 1024) \div PageUnit

\* 4*1024*1024*1024 bytes, in pages
MaxPages == (4 * 1024 * 1024) \div (PageUnit \div 1024)

\* roundup(size + 8, unit): the next multiple of unit
roundup_plus_header(size) ==
    [pages |-> size.pages + ((size.rest + 8 + (PageUnit - 1)) \div PageUnit),
     rest |-> 0]

\* "assert size>=64*1024*1024"
size_not_too_small(size) == size.pages >= MinPages

\* "assert size<=4*1024*1024*1024"
size_not_too_big(size) ==
    size.pages < MaxPages \/ (size.pages = MaxPages /\ size.rest = 0)

\* variant: only the minimum is asserted
validate_minimum_only(size) == size_not_too_small(size)

\* validate_size(size) raises no AssertionError
validate_size(size) == validate_minimum_only(size) /\ size_not_too_big(size)

\* rerr(), and the files as the call leaves them
\*   exists: the file named is there on return; created, unlinked: by this call
client_failed(exists, created, unlinked) ==
    [success |-> FALSE, delete |-> FALSE, mapped |-> FALSE,
     mmap_size |-> [pages |-> 0, rest |-> 0],
     data_start |-> 0, data_end |-> 0,
     exists |-> exists, created |-> created, unlinked |-> unlinked]

\* "except Exception": the file is cleaned up if delete is set.  A temporary
\* file is closed, which removes it; otherwise clean_mmap(mmap_filename)
\* unlinks the file named if there is one
client_raised(delete, exists, created) ==
    IF delete /\ exists
    THEN client_failed(FALSE, created, TRUE)
    ELSE client_failed(exists, created, FALSE)

\* from the group settings to mmap.mmap(fd, length=mmap_size), the file open
client_mapped(c, delete, created, size, start, end) ==
    IF (c.with_group /\ c.fault = "fchmod") \/ c.fault \in {"write", "mmap"}
    THEN client_raised(delete, TRUE, created)
    ELSE [success |-> TRUE, delete |-> delete, mapped |-> TRUE, mmap_size |-> size,
          data_start |-> start, data_end |-> end,
          exists |-> TRUE, created |-> created, unlinked |-> FALSE]

\* init_client_mmap(mmap_group, socket_filename, size, filename): what it
\* returns and what it leaves of the file
init_client_mmap(c) ==
    LET rounded == roundup_plus_header(c.size)
    IN  IF c.filename # ""
        THEN IF c.exists
             THEN IF c.fault = "open"
                  THEN client_raised(TRUE, TRUE, FALSE)
                  ELSE IF ~validate_size(c.file_size)
                  THEN client_raised(TRUE, TRUE, FALSE)
                  ELSE client_mapped(c, FALSE, FALSE, c.file_size,
                                     c.file_start, c.file_end)
             ELSE IF ~validate_size(rounded)
                  THEN client_raised(TRUE, FALSE, FALSE)
                  ELSE IF c.fault = "exists"
                  THEN client_failed(TRUE, FALSE, FALSE)
                  ELSE IF c.fault = "create"
                  THEN client_raised(TRUE, FALSE, FALSE)
                  ELSE client_mapped(c, TRUE, TRUE, rounded, 0, 0)
        ELSE IF ~validate_size(rounded)
             THEN client_raised(TRUE, FALSE, FALSE)
             ELSE IF c.fault = "mmap_dir"
             THEN client_raised(TRUE, FALSE, FALSE)
             ELSE IF c.fault = "tempfile"
             THEN client_failed(FALSE, FALSE, FALSE)
             ELSE client_mapped(c, TRUE, TRUE, rounded, 0, 0)

\* the sizes asked for: around 64 MiB and 4 GiB, the default of 128 MiB, none
RequestedSizes ==
    [pages : {0, MinPages - 2, MinPages - 1, 2 * MinPages, MaxPages - 2, MaxPages - 1},
     rest : {0, PageUnit - 9, PageUnit - 8, PageUnit - 7}]

\* the sizes of a file that is there already
ExistingSizes ==
    [pages : {0, MinPages - 1, MinPages, MaxPages}, rest : {0, 1, PageUnit - 1}]

\* the calls that the environment lets fail: none, or one of them
Faults == {"none", "open", "exists", "create", "mmap_dir", "tempfile",
           "fchmod", "write", "mmap"}

\* the first two words of a file that is there already
ExistingCursors == {<<0, 0>>, <<8, 8>>, <<PageUnit, 2 * PageUnit>>}

InitClient ==
    /\ mmap_area = ZeroArea
    /\ outstanding = <<>>
    /\ view = NoView
    /\ released = <<>>
    /\ furthest = 0
    /\ lastOp = NoOp
    /\ token_call = NoCall
    /\ conn = NewConnection(FALSE, 0)
    /\ prod = IdleProducer
    /\ cons = IdleConsumer
    /\ scenario = NoScenario
    /\ \E filename \in {"", "mmap"}, size \in RequestedSizes, fault \in Faults,
          with_group \in BOOLEAN, exists \in BOOLEAN, file_size \in ExistingSizes,
          w \in ExistingCursors :
          /\ exists => filename # ""
          /\ ~exists => (file_size = [pages |-> 0, rest |-> 0] /\ w = <<0, 0>>)
          /\ init_call = [pc |-> "call", op |-> "init_client_mmap",
                          filename |-> filename, size |-> size, fault |-> fault,
                          with_group |-> with_group, exists |-> exists,
                          file_size |-> file_size,
                          file_start |-> w[1], file_end |-> w[2],
                          result |-> client_failed(exists, FALSE, FALSE)]

\* init_client_mmap(mmap_group, socket_filename, size, filename)
ClientInit ==
    /\ init_call.pc = "call"
    /\ init_call.op = "init_client_mmap"
    /\ init_call' = [init_call EXCEPT !.pc = "done",
                                      !.result = init_client_mmap(init_call)]
    /\ UNCHANGED <<mmap_area, outstanding, view, released, furthest, lastOp,
                   token_call, conn, prod, cons, scenario>>

NextClient == ClientInit

SpecClient == InitClient /\ [][NextClient]_vars

\* init_client_mmap has returned
ClientDone == init_call.pc = "done" /\ init_call.op = "init_client_mmap"

\* the call was to make a new region: no file of that name was there
NewRegion == ClientDone /\ ~init_call.exists

\* the rounded size is below 64 MiB or above 4 GiB
RoundedOutOfRange ==
    LET rounded == roundup_plus_header(init_call.size)
    IN  rounded.pages < MinPages \/ rounded.pages > MaxPages

\* a call the environment lets fail is one that this call comes to make
EnvironmentFails ==
    \/ init_call.fault \in {"write", "mmap"}
    \/ init_call.fault = "fchmod" /\ init_call.with_group
    \/ init_call.fault \in {"exists", "create"} /\ init_call.filename # ""
    \/ init_call.fault \in {"mmap_dir", "tempfile"} /\ init_call.filename = ""

\* C18, as claimed: init_client_mmap rounds size+8 up to a multiple of the
\* page unit and fails (no success flag, no mapped area) if and only if the
\* rounded size is below 64 MiB or above 4 GiB; when it fails for this reason
\* no backing file has been created
C18_FailsIffOutOfRange ==
    NewRegion =>
        /\ (~init_call.result.success /\ ~init_call.result.mapped)
               <=> RoundedOutOfRange
        /\ RoundedOutOfRange => ~init_call.result.created

\* C18, amended: it fails whenever the rounded size is below 64 MiB or above
\* 4 GiB, and then no backing file has been created; with the rounded size in
\* range it fails if and only if the directory, the file or the mapping
\* cannot be made
C18_FailsWhenOutOfRange ==
    NewRegion =>
        /\ RoundedOutOfRange =>
              /\ ~init_call.result.success
              /\ ~init_call.result.mapped
              /\ ~init_call.result.created
              /\ ~init_call.result.exists
        /\ ~RoundedOutOfRange =>
              (~init_call.result.success <=> EnvironmentFails)
        /\ init_call.result.success =>
              init_call.result.mmap_size = roundup_plus_header(init_call.size)

\* a new file is asked for with a size that rounds up to one page less than
\* 64 MiB: the call fails and there is no file
C18_Witness ==
    /\ NewRegion
    /\ init_call.filename # ""
    /\ init_call.size = [pages |-> MinPages - 2, rest |-> PageUnit - 8]
    /\ roundup_plus_header(init_call.size).pages = MinPages - 1
    /\ ~init_call.result.success
    /\ ~init_call.result.exists

\* C19: on every path, a failed open, a failed size check and a failed mapping
\* included, init_client_mmap unlinks the backing file only if this call made
\* it; a file that was there before the call is still there on return
C19_OnlyOwnFileUnlinked ==
    ClientDone =>
        /\ init_call.result.unlinked => init_call.result.created
        /\ init_call.exists => init_call.result.exists

\* C20: after every successful init_client_mmap both cursor words of the
\* region read 0, so that the first mmap_write takes start = end = 8
C20_NewRegionCursorsZero ==
    (ClientDone /\ init_call.result.success) =>
        /\ init_call.result.data_start = 0
        /\ init_call.result.data_end = 0
        /\ Max(8, init_call.result.data_start) = 8
        /\ Max(8, init_call.result.data_end) = 8

----------------------------------------------------------------------------
(* closing: MMAP_Connection.cleanup and clean_mmap called again and again *)

\* clean_mmap(mmap_filename): the file is unlinked if a name is given and the
\* file is there; an OSError of os.unlink is caught.  named: the name is not
\* empty; exists: os.path.exists(mmap_filename)
clean_mmap(named, exists) ==
    [exists |-> exists /\ ~named, unlinked |-> named /\ exists, raised |-> ""]

InitClose ==
    /\ mmap_area \in ClientFiles
    /\ \E s \in BOOLEAN, m \in {0, mmap_size, mmap_size + 1} :
          conn = NewConnection(s, m)
    /\ outstanding = <<>>
    /\ view = NoView
    /\ released = <<>>
    /\ furthest = 0
    /\ lastOp = NoOp
    /\ token_call = NoCall
    /\ prod = IdleProducer
    /\ cons = IdleConsumer
    /\ scenario = NoScenario
    /\ \E exists \in BOOLEAN :
          init_call = [pc |-> "closing", op |-> "clean_mmap", exists |-> exists,
                       cleanup_again |-> FALSE, clean_again |-> FALSE,
                       unlinked |-> FALSE, raised |-> ""]

\* cleanup(), at any time; cleanup_again: it has been called with no area held
CleanupAgain ==
    /\ init_call.pc = "closing"
    /\ conn' = cleanup(conn)
    /\ init_call' = [init_call EXCEPT
                        !.cleanup_again = init_call.cleanup_again
                                          \/ conn.mmap = "None"]
    /\ UNCHANGED <<mmap_area, outstanding, view, released, furthest, lastOp,
                   token_call, prod, cons, scenario>>

\* clean_mmap(mmap_filename), with a name or with None, at any time;
\* clean_again: it has been called with a name whose file was not there
CleanMmap ==
    /\ init_call.pc = "closing"
    /\ \E named \in BOOLEAN : \E r \in {clean_mmap(named, init_call.exists)} :
          init_call' = [init_call EXCEPT
                           !.exists = r.exists,
                           !.raised = r.raised,
                           !.unlinked = r.unlinked,
                           !.clean_again = init_call.clean_again
                                           \/ (named /\ ~init_call.exists)]
    /\ UNCHANGED <<mmap_area, outstanding, view, released, furthest, lastOp,
                   token_call, conn, prod, cons, scenario>>

NextClose == ParseClientCaps \/ CleanupAgain \/ CleanMmap

SpecClose == InitClose /\ [][NextClose]_vars

\* C21: every call of cleanup leaves mmap None and mmap_size 0, the mapped
\* area is closed at most once however many calls are made, and clean_mmap
\* on a file that is no longer there changes nothing and raises nothing
C21_CloseIdempotent ==
    [][/\ CleanupAgain =>
             /\ conn'.mmap = "None"
             /\ conn'.mmap_size = 0
             /\ conn'.closes <= 1
             /\ conn.mmap = "None" => conn'.closes = conn.closes
       /\ (CleanMmap /\ ~init_call.exists) =>
             /\ ~init_call'.exists
             /\ ~init_call'.unlinked
             /\ init_call'.raised = ""]_vars

\* a region that was accepted has been closed by cleanup and cleanup has been
\* called again; the file has been unlinked and clean_mmap has been called
\* again with its name
C21_Witness ==
    /\ conn.pc = "parsed"
    /\ conn.verification = conn.caps.token
    /\ conn.mmap_client_token # 0
    /\ conn.mmap = "None"
    /\ conn.closes = 1
    /\ init_call.cleanup_again
    /\ ~init_call.exists
    /\ init_call.clean_again

----------------------------------------------------------------------------
(* what the stepwise producer may touch *)

\* two byte ranges, each <<offset, length>>, share a byte
ranges_overlap(a, b) ==
    /\ a[2] > 0
    /\ b[2] > 0
    /\ a[1] < b[1] + b[2]
    /\ b[1] < a[1] + a[2]

\* the chunks of the descriptor in the consumer's hands whose bytes it has not
\* taken yet: the chunks still to be copied, or the one chunk under its array
ChunksInHand ==
    IF cons.pc = "idle" THEN {}
    ELSE IF cons.pc = "view" \/ Len(cons.chunks) = 1 THEN {cons.chunks[1]}
    ELSE { cons.chunks[j] :
             j \in (IF cons.pc = "copy" THEN cons.k ELSE cons.k + 1)..Len(cons.chunks) }

\* the chunks of every descriptor returned by mmap_write whose bytes the
\* consumer has not taken yet
UnreadChunks ==
    ChunksInHand
    \cup UNION { { outstanding[i].chunks[j] : j \in 1..Len(outstanding[i].chunks) } :
                   i \in 1..Len(outstanding) }

\* C22: with mmap_write and mmap_read taken one step at a time and the
\* descriptors read in the order written, the producer never copies bytes
\* into a range of a descriptor that was returned and whose bytes the consumer
\* has not taken yet, and the data_start it loaded earlier gives it no more
\* free space than the data_start of the moment would
C22_NoCopyOverUnread ==
    [][/\ WriteCopy =>
             \A u \in UnreadChunks : ~ranges_overlap(prod.chunks[prod.k], u)
       /\ WriteLoadEnd =>
             available_space(prod.start, write_end(mmap_area), mmap_size)
                <= available_space(write_start(mmap_area), write_end(mmap_area),
                                   mmap_size)]_vars

\* C23: within every successful mmap_write all the bytes of the payload, both
\* chunks of a split one, are in the data area before data_end is stored, and
\* data_end is stored once per call: no other step changes it
C23_CopiedBeforePublished ==
    [][/\ WriteStoreEnd =>
             /\ join_chunks(mmap_area, prod.chunks) = prod.data
             /\ data_end' = prod.data_end
       /\ ~WriteStoreEnd => data_end' = data_end]_vars

\* a split write has copied both chunks and has not stored data_end yet
C23_Witness ==
    /\ prod.pc = "store"
    /\ Len(prod.chunks) = 2
    /\ prod.chunks[1][2] > 0
    /\ prod.chunks[2][2] > 0
    /\ join_chunks(mmap_area, prod.chunks) = prod.data
    /\ data_end # prod.data_end

\* offset + length of the last pair of a descriptor
release_value(chunks) == chunks[Len(chunks)][1] + chunks[Len(chunks)][2]

\* C24: the only value a read stores into data_start is offset + length of
\* the last pair of its descriptor; no store leaves data_start at the end of
\* the first pair of a two-pair descriptor for the producer to load
C24_OnlyLastPairStored ==
    [][ReadStore => data_start' = release_value(cons.chunks)]_vars

\* C25: after init_state, parse_client_caps (returned or raised) and cleanup,
\* the connection holds a mapped region (mmap not None and mmap_size > 0) only
\* if the token read from the region equalled the token the client announced
\* and the region is at least min_mmap_size long
C25_EnabledImpliesVerified ==
    (conn.mmap # "None" /\ conn.mmap_size > 0) =>
        /\ conn.pc = "parsed"
        /\ conn.verification = conn.caps.token
        /\ conn.mmap_size >= conn.min_mmap_size

\* the restart condition of mmap_write on the cursors of the current state,
\* for a payload of length l (available >= N/2 is a float comparison: doubled)
PlentyOfSpace(l) ==
    LET start     == Max(8, data_start)
        end       == Max(8, data_end)
        available == IF end < start THEN start - end
                     ELSE (mmap_size - end) + (start - 8)
    IN  /\ 2 * available >= mmap_size
        /\ available >= 3 * l
        /\ l < start - 8

\* first_chunk_capacity on the cursors of the current state
FirstChunkCapacity ==
    IF Max(8, data_end) >= Max(8, data_start) THEN mmap_size - Max(8, data_end)
    ELSE Max(8, data_start) - Max(8, data_end)

\* mmap_write has just accepted a payload: the step that adds its descriptor
\* to the ones not read yet
WriteAccepted ==
    /\ lastOp'.op = "write" /\ lastOp'.ok
    /\ outstanding' = Append(outstanding, [chunks |-> lastOp'.chunks,
                                           data |-> lastOp'.payload])

\* C26: an accepted payload of length L >= first_chunk_capacity for which the
\* restart condition does not hold is found with end >= start and is split:
\* the descriptor is [(end, N - end), (8, L - (N - end))], data_end becomes
\* 8 + L - (N - end), and that is strictly below data_start
C26_SplitPlacement ==
    [][(/\ WriteAccepted
        /\ Len(lastOp'.payload) >= FirstChunkCapacity
        /\ ~PlentyOfSpace(Len(lastOp'.payload)))
       => LET L   == Len(lastOp'.payload)
              end == Max(8, data_end)
          IN  /\ end >= Max(8, data_start)
              /\ lastOp'.chunks = << <<end, mmap_size - end>>,
                                     <<8, L - (mmap_size - end)>> >>
              /\ data_end' = 8 + L - (mmap_size - end)
              /\ data_end' < data_start
              /\ data_start' = data_start]_vars

\* a payload has been split with bytes in both chunks
C26_Witness ==
    /\ lastOp.op = "write" /\ lastOp.ok
    /\ Len(lastOp.chunks) = 2
    /\ lastOp.chunks[1][2] > 0
    /\ lastOp.chunks[2][2] > 0
    /\ data_end = 8 + lastOp.chunks[2][2]

\* the payload just accepted was written whole at offset 8 although the write
\* position was further on
RestartTaken ==
    /\ WriteAccepted
    /\ Max(8, data_end) > 8
    /\ lastOp'.chunks = << <<8, Len(lastOp'.payload)>> >>

\* C27: an accepted payload of length L >= first_chunk_capacity with
\* available >= N/2, available >= 3L and L < start - 8 is written whole at
\* offset 8: the descriptor is [(8, L)], data_end becomes 8 + L, and the bytes
\* of [end, N) are left as they were; the payload is written this way under
\* these conditions and no others
C27_RestartPlacement ==
    [][/\ (/\ WriteAccepted
           /\ Len(lastOp'.payload) >= FirstChunkCapacity
           /\ PlentyOfSpace(Len(lastOp'.payload)))
          => /\ lastOp'.chunks = << <<8, Len(lastOp'.payload)>> >>
             /\ data_end' = 8 + Len(lastOp'.payload)
             /\ \A i \in Max(8, data_end)..(mmap_size - 1) :
                    mmap_area'[i] = mmap_area[i]
       /\ RestartTaken
          => /\ Len(lastOp'.payload) >= FirstChunkCapacity
             /\ PlentyOfSpace(Len(lastOp'.payload))]_vars

\* a payload was written at offset 8 of a drained region whose cursors were
\* both past the end of that payload
C27_Witness ==
    /\ lastOp.op = "write" /\ lastOp.ok
    /\ Len(lastOp.payload) > 0
    /\ lastOp.chunks = << <<8, Len(lastOp.payload)>> >>
    /\ Len(outstanding) = 1
    /\ data_start > 8 + Len(lastOp.payload)
    /\ data_end = 8 + Len(lastOp.payload)

\* the sum of the lengths of the pairs of a descriptor
RECURSIVE chunks_length(_)
chunks_length(chunks) ==
    IF chunks = <<>> THEN 0 ELSE Head(chunks)[2] + chunks_length(Tail(chunks))

\* C28: an accepted payload of length L < first_chunk_capacity (N - end if
\* end >= start, start - end if end < start, cursors taken as max(8, cursor))
\* is written at end: the descriptor is [(end, L)] and data_end becomes
\* end + L; every descriptor returned has one or two pairs whose lengths sum
\* to L
C28_ContiguousPlacement ==
    [][WriteAccepted =>
         /\ Len(lastOp'.payload) < FirstChunkCapacity
            => /\ lastOp'.chunks = << <<Max(8, data_end), Len(lastOp'.payload)>> >>
               /\ data_end' = Max(8, data_end) + Len(lastOp'.payload)
               /\ region_bytes(mmap_area', Max(8, data_end), Len(lastOp'.payload))
                     = lastOp'.payload
         /\ Len(lastOp'.chunks) \in {1, 2}
         /\ chunks_length(lastOp'.chunks) = Len(lastOp'.payload)]_vars

\* a payload was written in one piece behind an unread one, in the wrapped
\* state: data_end is below data_start
C28_Witness ==
    /\ lastOp.op = "write" /\ lastOp.ok
    /\ Len(outstanding) = 2
    /\ Len(lastOp.payload) > 0
    /\ Len(lastOp.chunks) = 1
    /\ lastOp.chunks[1][1] > 8
    /\ data_end = lastOp.chunks[1][1] + Len(lastOp.payload)
    /\ data_end < data_start

\* the number of payload bytes written and not read yet
RECURSIVE unread_bytes(_)
unread_bytes(descrs) ==
    IF descrs = <<>> THEN 0 ELSE Len(Head(descrs).data) + unread_bytes(Tail(descrs))

\* a non-empty payload has just been accepted
NonEmptyWritten == lastOp.op = "write" /\ lastOp.ok /\ Len(lastOp.payload) > 0

\* C29 as claimed: after a successful mmap_write of a non-empty payload
\* max(8, data_end) differs from max(8, data_start); data_start = data_end
\* holds only when no unread payload is outstanding; at least one byte of the
\* data area is unused
C29_FullNeverEmpty ==
    /\ NonEmptyWritten => Max(8, data_end) # Max(8, data_start)
    /\ data_start = data_end => outstanding = <<>>
    /\ unread_bytes(outstanding) < mmap_size - 8

\* C29 amended: after a successful mmap_write of a non-empty payload
\* max(8, data_end) differs from max(8, data_start); data_start = data_end
\* holds only when no unread byte is outstanding, that is when every payload
\* not read yet is empty; at least one byte of the data area is unused
C29_FullNeverEmptyButForEmptyPayloads ==
    /\ NonEmptyWritten => Max(8, data_end) # Max(8, data_start)
    /\ data_start = data_end => unread_bytes(outstanding) = 0
    /\ unread_bytes(outstanding) < mmap_size - 8

\* a non-empty payload was accepted and left one byte of the data area unused
C29_Witness ==
    /\ NonEmptyWritten
    /\ unread_bytes(outstanding) = mmap_size - 8 - 1
    /\ Max(8, data_end) # Max(8, data_start)

\* every descriptor mmap_write has returned was read, oldest first
Drained == outstanding = <<>>

\* C30: whenever the consumer has read, in the order of production, every
\* descriptor that mmap_write returned, data_start equals data_end, and the
\* mmap_write called next computes available = N - 8 wherever the cursors are
C30_Drain ==
    [][Drained =>
         /\ data_start = data_end
         /\ lastOp'.op = "write" => lastOp'.available = mmap_size - 8]_vars

\* a payload was accepted by a write that found the region drained with both
\* cursors past offset 8, and computed available = N - 8
C30_Witness ==
    /\ lastOp.op = "write" /\ lastOp.ok
    /\ Len(outstanding) = 1
    /\ data_start > 8
    /\ lastOp.available = mmap_size - 8

\* C31: in the wrapped state (end < start, cursors taken as max(8, cursor))
\* every accepted payload is written in one piece at end: the descriptor is
\* [(end, L)], neither the restart nor the split path is taken, and the
\* data_end stored, end + L, is strictly below start
C31_WrappedWriteContiguous ==
    [][(WriteAccepted /\ Max(8, data_end) < Max(8, data_start))
       => /\ lastOp'.chunks = << <<Max(8, data_end), Len(lastOp'.payload)>> >>
          /\ data_end' = Max(8, data_end) + Len(lastOp'.payload)
          /\ data_end' < Max(8, data_start)
          /\ data_start' = data_start]_vars

\* a payload written in the wrapped state, past offset 8, that left data_end
\* one byte below data_start
C31_Witness ==
    /\ lastOp.op = "write" /\ lastOp.ok
    /\ Len(lastOp.payload) > 0
    /\ lastOp.chunks = << <<data_end - Len(lastOp.payload), Len(lastOp.payload)>> >>
    /\ lastOp.chunks[1][1] > 8
    /\ data_end = data_start - 1

\* available as mmap_write computes it from the cursors of the current state
Available ==
    IF Max(8, data_end) < Max(8, data_start)
    THEN Max(8, data_start) - Max(8, data_end)
    ELSE (mmap_size - Max(8, data_end)) + (Max(8, data_start) - 8)

\* mmap_write has just returned, with a descriptor or without
WriteReturned == lastOp'.op = "write"

\* the free value returned is available - len(payload), from the cursors read
\* at the start of the call, whether the payload was accepted or refused
FreeFromCursorsRead ==
    WriteReturned => /\ lastOp'.available = Available
                     /\ lastOp'.free = Available - Len(lastOp'.payload)

\* C32: the free value mmap_write returns is available -
\* len(payload) as computed from the cursors read at the start of the call,
\* and after a successful write it is the available value that a mmap_write
\* called next, with no read in between, computes
C32_FreeIsNextAvailable ==
    [][/\ FreeFromCursorsRead
       /\ WriteAccepted => Available' = lastOp'.free]_vars

\* get_caps advertises the server's token, token_index and token_bytes
TokenAdvertised == get_caps(conn).has_token

\* C33: the server's own token is chosen, written and advertised by get_caps
\* only after the client's token was read back and matched and the size check
\* against min_mmap_size passed; whenever a server token is advertised while
\* the region is still mapped, read_mmap_token(region, advertised index,
\* advertised bytes) equals the advertised token
C33_HandshakeOrdering ==
    TokenAdvertised =>
        /\ conn.verification = conn.caps.token
        /\ conn.mmap # "None" =>
             /\ conn.mmap_size >= conn.min_mmap_size
             /\ read_mmap_token(mapped_area(mmap_area, conn.mapped),
                                get_caps(conn).token_index,
                                get_caps(conn).token_bytes)
                  = [value |-> get_caps(conn).token, error |-> ""]

\* write_mmap_token has raised "token value is too big"
TokenTooBig ==
    /\ token_call.pc = "written"
    /\ token_call.error = "token value is too big"

\* C35: when write_mmap_token fails because the value is too big, the bytes
\* of [offset, offset + width) hold value mod 256^width, least-significant
\* byte first: the bytes were stored before the failure was detected, and the
\* rest of the region is as it was
C35_TooBigTokenStored ==
    TokenTooBig =>
        /\ token_call.token >= 256 ^ token_call.count
        /\ \A j \in DOMAIN mmap_area :
             mmap_area[j] =
               IF token_call.index <= j /\ j < token_call.index + token_call.count
               THEN ((token_call.token % (256 ^ token_call.count))
                        \div (256 ^ (j - token_call.index))) % 256
               ELSE token_call.fill

\* 0x10001 written two bytes wide at offset 9 of a region filled with 0xaa:
\* the call failed and the bytes at 9 and 10 are 1 and 0
C35_Witness ==
    /\ TokenTooBig
    /\ token_call.token = 65537
    /\ token_call.count = 2
    /\ token_call.index = 9
    /\ token_call.fill = 170
    /\ mmap_area[9] = 1
    /\ mmap_area[10] = 0
    /\ mmap_area # FilledArea(170)

----------------------------------------------------------------------------
(* mmap_write against a peer that stores what it likes in data_start *)

\* the values the peer stores in the data_start word: the ends and the middle
\* of the data area, the first values past the region, and large ones
PeerValues ==
    {0, 8, 12, mmap_size - 1, mmap_size, mmap_size + 1, 65536, 2147483647}

\* the peer, which has the region mapped writable, stores v in data_start
PeerStoresStart ==
    /\ \E v \in PeerValues : mmap_area' = store_data_start(mmap_area, v)
    /\ lastOp' = [NoOp EXCEPT !.op = "peer"]
    /\ UNCHANGED <<outstanding, view, released, furthest, token_call, conn,
                   init_call, prod, cons, scenario>>

\* mmap_write(mmap_area, mmap_size, data) returns or raises; the descriptors
\* are not followed up
UntrustedWrite ==
    /\ \E data \in Payloads : \E r \in {mmap_write(mmap_area, mmap_size, data)} :
        /\ mmap_area' = r.area
        /\ lastOp' = [op |-> "write", ok |-> r.ok, chunks |-> r.chunks,
                      free |-> r.free, data |-> <<>>, payload |-> data,
                      available |-> available_space(write_start(mmap_area),
                                                    write_end(mmap_area), mmap_size)]
    /\ UNCHANGED <<outstanding, view, released, furthest, token_call, conn,
                   init_call, prod, cons, scenario>>

NextUntrusted == PeerStoresStart \/ UntrustedWrite

SpecUntrusted == Init /\ [][NextUntrusted]_vars

\* a pair <<offset, length>> lies in the data area [8, N)
InDataArea(c) == c[1] >= 8 /\ c[2] >= 0 /\ c[1] + c[2] <= mmap_size

\* C34: whatever value the peer has stored in data_start, with data_end in
\* [8, N) (or still 0, taken as 8), mmap_write returns no descriptor with a
\* range outside [8, N), copies no byte outside [8, N) and stores no data_end
\* value outside [8, N)
C34_UntrustedStartContained ==
    [][(lastOp'.op = "write" /\ Max(8, data_end) < mmap_size)
       => /\ \A i \in 1..Len(lastOp'.chunks) : InDataArea(lastOp'.chunks[i])
          /\ DOMAIN mmap_area' = DOMAIN mmap_area
          /\ data_start' = data_start
          /\ data_end' = data_end \/ data_end' \in 8..(mmap_size - 1)]_vars

====
